---------------------------- MODULE Spec2Model ----------------------------
(***************************************************************************)
(* A model of viper's PE module (src/modules/pe.py): the fingerprinting    *)
(* commands of the class PE, their repository scans and the imphash        *)
(* clustering.                                                             *)
(*                                                                         *)
(* A file is identified with its content, a "blob" 1, 2, ..; blob 0 stands *)
(* for "no file".  What pefile makes of a blob is image[b].  Every command *)
(* is one action: it runs the whole handler and leaves in `out` what the   *)
(* handler printed, fetched, matched, wrote and raised.                    *)
(***************************************************************************)
EXTENDS Integers, Sequences, FiniteSets, TLC

\* ------------------------------------------------------------------ bounds
\* Samples the database lists where the clustering is studied.
NCorpus == 3
\* Samples the database lists elsewhere.
NFew == 2
\* Largest --window value tried (minutes).
MaxWindow == 2
\* Largest number of language-level entries of a resource tree.
MaxLeaves == 3
\* Largest number of bytes of a certificate.
MaxPayload == 1
\* Largest number of bytes that follow the certificate table in a file.
MaxOverlay == 1

\* ------------------------------------------------------- program constants
\* int(delta.total_seconds()) / 60
SecondsPerMinute == 60
\* pe.write()[address+8:]
CertHeader == 8

VARIABLES
    session,    \* __sessions__.current.file: a blob, 0 when no session is set
    self_pe,    \* self.pe: the blob whose parse the instance holds, 0 for None
    corpus,     \* db.find(key='all'): the samples, a sequence of distinct blobs
    stored,     \* the blobs for which os.path.exists(get_sample_path(sha256))
    image,      \* what pefile.PE makes of each blob
    tz,         \* the local time zone datetime.fromtimestamp converts to
    out         \* what the last command did

vars == <<session, self_pe, corpus, stored, image, tz, out>>

\* ----------------------------------------------------------------- helpers
\* Python's truth value of an int or None argument (None is modelled as 0).
Truthy(n) == n # 0

\* hashlib.md5(data).hexdigest(); File.sha256, File.md5: digests are taken
\* to be collision free and the two algorithms to give different values.
Md5(data) == <<"md5", data>>
Sha256(b) == <<"sha256", b>>

\* hex(n) followed by ('%-8s' % ...).strip(): pads then strips, leaving hex(n).
Hex(n) == <<"0x", n>>

Range(s) == {s[i] : i \in 1..Len(s)}

\* s[n:] of Python for n >= 0: empty when n >= len(s).
SliceFrom(s, n) == IF n >= Len(s) THEN << >> ELSE SubSeq(s, n + 1, Len(s))

\* ------------------------------------------------------- session, instance
\* What a handler leaves behind; every command fills in what it did.
NoOut ==
    [ cmd      |-> "none",
      scan     |-> FALSE,  \* --scan
      cluster  |-> FALSE,  \* --cluster
      window   |-> 0,      \* --window (0: absent or 0, both falsy)
      open     |-> 0,      \* --open   (0: absent or 0, both falsy)
      dump     |-> "",     \* --dump   ("": absent)
      sess     |-> 0,      \* the session file when the command started
      primary  |-> 0,      \* the blob self.pe is the parse of, once checked
      checked  |-> FALSE,  \* __check_session was called
      errors   |-> << >>,  \* print_error / print_warning messages
      value    |-> << >>,  \* the primary's fingerprint, as printed
      listed   |-> FALSE,  \* db.find(key='all') was called
      fetched  |-> << >>,  \* samples pefile.PE was called on, in order
      derived  |-> << >>,  \* samples whose fingerprint was derived, in order
      matches  |-> << >>,  \* rows appended to matches
      reported |-> FALSE,  \* the matches count / table was printed
      clusters |-> {},     \* the clusters printed by imphash --cluster
      labels   |-> << >>,  \* <<sample, label>> printed by find_language
      written  |-> << >>,  \* files written
      resources|-> << >>,  \* get_resources(self.pe)
      raised   |-> "" ]    \* the exception that left the handler, "" if none

\* __sessions__.is_set()
SessionIsSet == session # 0

\* pefile.PE(path) raises PEFormatError unless the blob is a PE image.
ParseOk(b) == image[b].pe

\* PE.__check_session: [ok, pe, errors], pe being the new value of self.pe.
CheckSession ==
    IF ~SessionIsSet
    THEN [ok |-> FALSE, pe |-> self_pe, errors |-> <<"No session opened">>]
    ELSE IF self_pe = 0
         THEN IF ParseOk(session)
              THEN [ok |-> TRUE, pe |-> session, errors |-> << >>]
              ELSE [ok |-> FALSE, pe |-> self_pe,
                    errors |-> <<"Unable to parse PE file">>]
         ELSE [ok |-> TRUE, pe |-> self_pe, errors |-> << >>]

\* What every handler records before it does anything else.
Started(cmd) == [NoOut EXCEPT !.cmd = cmd, !.sess = session]

\* A handler that returns without a word.
SilentRefused(o, cs) == [o EXCEPT !.checked = TRUE]

\* The handler returned because __check_session() was False.
Refused(o, cs) == [o EXCEPT !.checked = TRUE, !.errors = cs.errors]

\* PE.__init__: a new instance of the module.
NewInstance ==
    /\ self_pe' = 0
    /\ out' = Started("init")
    /\ UNCHANGED <<session, corpus, stored, image, tz>>

\* The user opens a session on a file (__sessions__.new, outside the module).
SessionNew ==
    \E b \in DOMAIN image :
        /\ session' = b
        /\ out' = Started("open")
        /\ UNCHANGED <<self_pe, corpus, stored, image, tz>>

\* The user closes the session (__sessions__.close, outside the module).
SessionClose ==
    /\ session' = 0
    /\ out' = Started("close")
    /\ UNCHANGED <<self_pe, corpus, stored, image, tz>>

\* The samples a scan loop visits, with the place of each in the listing.
Sample(i) == [idx |-> i, sha256 |-> Sha256(corpus[i]), name |-> corpus[i],
              blob |-> corpus[i]]
Samples == [i \in 1..Len(corpus) |-> Sample(i)]

\* sample.sha256 == __sessions__.current.file.sha256
IsSelf(sample) == sample.sha256 = Sha256(session)

\* os.path.exists(get_sample_path(sample.sha256))
Exists(sample) == sample.blob \in stored

\* A scan loop's first steps on a sample: "self" (skipped as the session's
\* own file), "missing" (no file in storage), "corrupt" (pefile.PE raised) or
\* "ok".
Visit(sample) ==
    IF IsSelf(sample) THEN "self"
    ELSE IF ~Exists(sample) THEN "missing"
    ELSE IF ~ParseOk(sample.blob) THEN "corrupt"
    ELSE "ok"

\* What a scan loop has accumulated.
NoAcc == [fetched |-> << >>, derived |-> << >>, matches |-> << >>,
          labels |-> << >>, errors |-> << >>, written |-> << >>,
          raised |-> ""]

\* The handler's record once its scan loop ended with acc.
Scanned(o, acc) ==
    [o EXCEPT !.listed = TRUE, !.fetched = acc.fetched,
              !.derived = acc.derived, !.matches = acc.matches,
              !.labels = o.labels \o acc.labels,
              !.errors = o.errors \o acc.errors,
              !.written = o.written \o acc.written,
              !.raised = acc.raised,
              !.reported = (acc.raised = "")]

\* ------------------------------------------------------------- compiletime
\* The local zone's offset from UTC at ts: none in "utc"; in "dst" the clocks
\* are put back by DstShift seconds at DstEnd.
DstShift == 60 * SecondsPerMinute
DstEnd == 30 * SecondsPerMinute
UtcOffset(ts) == IF tz = "dst" /\ ts < DstEnd THEN DstShift ELSE 0

\* datetime.datetime.fromtimestamp(ts): a naive local time, in seconds.
FromTimestamp(ts) == ts + UtcOffset(ts)

\* get_compiletime(pe)
GetCompiletime(b) == FromTimestamp(image[b].ts)

\* The test of lines 159-170 on the two datetimes; Python 2 divides the
\* integers int(delta.total_seconds()) and 60 rounding down.
TimeMatch(compile_time, cur_compile_time, arg_window) ==
    IF compile_time = cur_compile_time THEN TRUE
    ELSE IF Truthy(arg_window)
         THEN LET delta == IF cur_compile_time > compile_time
                           THEN cur_compile_time - compile_time
                           ELSE compile_time - cur_compile_time
                  delta_minutes == delta \div SecondsPerMinute
              IN delta_minutes <= arg_window
         ELSE FALSE

\* One turn of the loop of lines 145-170.
CompiletimeStep(acc, sample, compile_time, arg_window) ==
    LET v == Visit(sample) IN
    IF v \in {"self", "missing"} THEN acc
    ELSE IF v = "corrupt"
    THEN [acc EXCEPT !.fetched = Append(@, sample.blob)]
    ELSE LET cur_compile_time == GetCompiletime(sample.blob)
             a == [acc EXCEPT !.fetched = Append(@, sample.blob),
                              !.derived = Append(@, sample.blob)]
         IN IF TimeMatch(compile_time, cur_compile_time, arg_window)
            THEN [a EXCEPT !.matches = Append(@,
                      <<sample.name, sample.sha256, cur_compile_time>>)]
            ELSE a

CompiletimeScan(samples, compile_time, arg_window) ==
    LET loop[i \in 0..Len(samples)] ==
            IF i = 0 THEN NoAcc
            ELSE CompiletimeStep(loop[i - 1], samples[i], compile_time,
                                 arg_window)
    IN loop[Len(samples)]

\* PE.compiletime
Compiletime ==
    \E arg_scan \in BOOLEAN, arg_window \in 0..MaxWindow :
        LET o == [Started("compiletime") EXCEPT !.scan = arg_scan,
                                                !.window = arg_window]
            cs == CheckSession
        IN /\ self_pe' = cs.pe
           /\ out' =
                IF ~cs.ok THEN Refused(o, cs)
                ELSE LET compile_time == GetCompiletime(cs.pe)
                         o1 == [o EXCEPT !.checked = TRUE, !.primary = cs.pe,
                                         !.value = <<compile_time>>]
                     IN IF arg_scan
                        THEN Scanned(o1, CompiletimeScan(Samples, compile_time,
                                                         arg_window))
                        ELSE o1
           /\ UNCHANGED <<session, corpus, stored, image, tz>>

\* --------------------------------------------------------------- resources
\* A comparison that takes every parse for the instance's own.
AnyPe(obj) == TRUE

\* row[i] of a Python list held as a tuple.
Py(row, i) == row[i + 1]

\* pe == self.pe: pefile.PE defines no __eq__, so this is identity of the
\* objects.  The instance's own parse is object 0, the parse of the sample
\* at place i of the listing is object i.
IsSelfPe(obj) == obj = 0

\* A get_resources whose counter moves on even when the entry raises.
CountingLeaf(st, leaf, name, pe, obj, arg_open, arg_dump) ==
    IF leaf.data = 0 THEN [st EXCEPT !.exc = TRUE, !.count = @ + 1]
    ELSE [st EXCEPT !.resources =
                       Append(@, <<st.count, name, Hex(leaf.offset),
                                   Md5(leaf.data), Hex(leaf.size),
                                   <<"magic", leaf.data>>,
                                   <<"lang", leaf.lang>>,
                                   <<"sublang", leaf.lang>> >>),
                    !.count = @ + 1]

\* Lines 300-328: one language-level entry.  st.exc is set when the entry
\* raises (pe.get_data on a malformed entry).  The folder of the dump is
\* taken to exist.
Leaf(st, leaf, name, pe, obj, arg_open, arg_dump) ==
    IF leaf.data = 0 THEN [st EXCEPT !.exc = TRUE]
    ELSE LET data == leaf.data
             offset == Hex(leaf.offset)
             resource == <<st.count, name, offset, Md5(data), Hex(leaf.size),
                           <<"magic", data>>, <<"lang", leaf.lang>>,
                           <<"sublang", leaf.lang>> >>
         IN IF (Truthy(arg_open) \/ arg_dump # "") /\ IsSelfPe(obj)
            THEN LET folder == IF arg_dump # "" THEN <<arg_dump>>
                               ELSE <<"mkdtemp", st.count>>
                     resource_path == <<folder, Md5(session), offset, name>>
                 IN [st EXCEPT
                       !.written = Append(@, [path |-> resource_path,
                                              data |-> data,
                                              pe |-> pe, obj |-> obj]),
                       !.resources = Append(@, Append(resource,
                                                      resource_path)),
                       !.count = @ + 1]
            ELSE [st EXCEPT !.resources = Append(@, resource),
                            !.count = @ + 1]

\* Lines 299-328: the language-level entries of one id entry.
Langs(st, langs, name, pe, obj, arg_open, arg_dump) ==
    LET loop[i \in 0..Len(langs)] ==
            IF i = 0 THEN st
            ELSE LET prev == loop[i - 1]
                 IN IF prev.exc THEN prev
                    ELSE Leaf(prev, langs[i], name, pe, obj, arg_open,
                              arg_dump)
    IN loop[Len(langs)]

\* Lines 297-298: the id entries of one type entry.
Ids(st, ids, name, pe, obj, arg_open, arg_dump) ==
    LET loop[j \in 0..Len(ids)] ==
            IF j = 0 THEN st
            ELSE LET prev == loop[j - 1]
                 IN IF prev.exc \/ ~ids[j].hasDir THEN prev
                    ELSE Langs(prev, ids[j].langs, name, pe, obj, arg_open,
                               arg_dump)
    IN loop[Len(ids)]

\* Lines 285-331: one resource type; what it raises is caught, printed and
\* the rest of the type skipped.
Type(st, type, pe, obj, arg_open, arg_dump) ==
    LET r == IF type.hasDir
             THEN Ids(st, type.ids, type.name, pe, obj, arg_open, arg_dump)
             ELSE st
    IN IF r.exc
       THEN [r EXCEPT !.exc = FALSE, !.errors = Append(@, "resource error")]
       ELSE r

\* get_resources(pe): [resources, written, errors].  pe is the blob parsed
\* and obj the parse's identity.
get_resources(pe, obj, arg_open, arg_dump) ==
    LET types == image[pe].res
        st0 == [resources |-> << >>, count |-> 1, written |-> << >>,
                errors |-> << >>, exc |-> FALSE]
        loop[k \in 0..Len(types)] ==
            IF k = 0 THEN st0
            ELSE Type(loop[k - 1], types[k], pe, obj, arg_open, arg_dump)
    IN IF image[pe].hasRes THEN loop[Len(types)] ELSE st0

\* The bytes of the file at path once the writes are done: the last write to
\* it (0 when nothing was written there).
ContentAt(written, path) ==
    LET loop[i \in 0..Len(written)] ==
            IF i = 0 THEN 0
            ELSE IF written[i].path = path THEN written[i].data
            ELSE loop[i - 1]
    IN loop[Len(written)]

\* Lines 408-415: the common resources, one entry for every pair that the
\* comparison of column 2 takes as equal.
MatchedResources(cur_resources, resources) ==
    LET inner(cur, acc) ==
            LET loop[j \in 0..Len(resources)] ==
                    IF j = 0 THEN acc
                    ELSE LET prev == loop[j - 1]
                         IN IF Py(cur, 2) = Py(resources[j], 2)
                            THEN Append(prev, Py(resources[j], 2))
                            ELSE prev
            IN loop[Len(resources)]
        outer[i \in 0..Len(cur_resources)] ==
            IF i = 0 THEN << >> ELSE inner(cur_resources[i], outer[i - 1])
    IN outer[Len(cur_resources)]

\* One turn of the loop of lines 390-420.
ResourcesStep(acc, sample, resources, arg_open, arg_dump) ==
    LET v == Visit(sample) IN
    IF v \in {"self", "missing"} THEN acc
    ELSE IF v = "corrupt"
    THEN [acc EXCEPT !.fetched = Append(@, sample.blob)]
    ELSE LET cur == get_resources(sample.blob, sample.idx, arg_open,
                                  arg_dump)
             matched_resources == MatchedResources(cur.resources, resources)
             a == [acc EXCEPT !.fetched = Append(@, sample.blob),
                              !.derived = Append(@, sample.blob),
                              !.written = @ \o cur.written,
                              !.errors = @ \o cur.errors]
         IN IF Len(matched_resources) > 0
            THEN [a EXCEPT !.matches = Append(@,
                      <<sample.name, sample.sha256, matched_resources>>)]
            ELSE a

ResourcesScan(samples, resources, arg_open, arg_dump) ==
    LET loop[i \in 0..Len(samples)] ==
            IF i = 0 THEN NoAcc
            ELSE ResourcesStep(loop[i - 1], samples[i], resources, arg_open,
                               arg_dump)
    IN loop[Len(samples)]

\* Lines 374-378: the first resource whose index is arg_open, 0 if none.
OpenedResource(resources, arg_open) ==
    LET loop[i \in 0..Len(resources)] ==
            IF i = 0 THEN 0
            ELSE LET prev == loop[i - 1]
                 IN IF prev # 0 THEN prev
                    ELSE IF Py(resources[i], 0) = arg_open THEN i
                    ELSE 0
    IN loop[Len(resources)]

\* The --open values tried: absent (or 0), the first index and the largest
\* index a tree of the model can give.
OpenArgs == {0, 1, MaxLeaves}

\* The --dump values tried: absent, or a folder (which exists).
DumpArgs == {"", "dir"}

\* PE.resources
Resources ==
    \E arg_open \in OpenArgs, arg_dump \in DumpArgs, arg_scan \in BOOLEAN :
        LET o == [Started("resources") EXCEPT !.scan = arg_scan,
                      !.open = arg_open, !.dump = arg_dump]
            cs == CheckSession
            own == get_resources(cs.pe, 0, arg_open, arg_dump)
            o1 == [o EXCEPT !.checked = TRUE, !.primary = cs.pe,
                       !.resources = own.resources,
                       !.written = own.written, !.errors = own.errors]
            opened == OpenedResource(own.resources, arg_open)
        IN /\ self_pe' = cs.pe
           /\ IF ~cs.ok
              THEN /\ out' = Refused(o, cs)
                   /\ session' = session
              ELSE IF own.resources = << >>
              THEN /\ out' = [o1 EXCEPT !.errors =
                                  Append(@, "No resources found")]
                   /\ session' = session
              ELSE IF Truthy(arg_open)
              THEN /\ out' = o1
                   /\ session' =
                        IF opened # 0
                        THEN ContentAt(own.written,
                                       Py(own.resources[opened], 8))
                        ELSE session
              ELSE IF arg_scan
              THEN /\ out' = Scanned(o1, ResourcesScan(Samples,
                                  own.resources, arg_open, arg_dump))
                   /\ session' = session
              ELSE /\ out' = o1
                   /\ session' = session
           /\ UNCHANGED <<corpus, stored, image, tz>>

\* ----------------------------------------------------------------- imphash
\* pefile's PE.get_imphash(): the digest of the import table, which the
\* image holds as a number.
get_imphash(b) == <<"imphash", image[b].imphash>>

\* Lines 481-484: cluster[cur_imphash].append([sample.sha256, sample.name])
ClusterAdd(cluster, key, entry) ==
    IF key \in DOMAIN cluster
    THEN [cluster EXCEPT ![key] = Append(@, entry)]
    ELSE [k \in DOMAIN cluster \cup {key} |->
              IF k = key THEN <<entry>> ELSE cluster[k]]

\* One turn of the loop of lines 471-484.
ClusterStep(acc, sample) ==
    IF ~Exists(sample) THEN acc
    ELSE IF ~ParseOk(sample.blob)
    THEN [acc EXCEPT !.fetched = Append(@, sample.blob)]
    ELSE [acc EXCEPT !.fetched = Append(@, sample.blob),
                     !.derived = Append(@, sample.blob),
                     !.cluster = ClusterAdd(@, get_imphash(sample.blob),
                                            <<sample.sha256, sample.name>>)]

ClusterAll(samples) ==
    LET loop[i \in 0..Len(samples)] ==
            IF i = 0
            THEN [fetched |-> << >>, derived |-> << >>, cluster |-> << >>]
            ELSE ClusterStep(loop[i - 1], samples[i])
    IN loop[Len(samples)]

\* A printing that leaves no cluster out.
PrintAllClusters(cluster) ==
    {[key |-> k, members |-> cluster[k]] : k \in DOMAIN cluster}

\* Lines 486-496: the clusters printed.
PrintedClusters(cluster) ==
    {[key |-> k, members |-> cluster[k]] :
        k \in {x \in DOMAIN cluster : ~(Len(cluster[x]) = 1)}}

\* One turn of the loop of lines 516-530.
ImphashStep(acc, sample, imphash) ==
    LET v == Visit(sample) IN
    IF v \in {"self", "missing"} THEN acc
    ELSE IF v = "corrupt"
    THEN [acc EXCEPT !.fetched = Append(@, sample.blob)]
    ELSE LET cur_imphash == get_imphash(sample.blob)
             a == [acc EXCEPT !.fetched = Append(@, sample.blob),
                              !.derived = Append(@, sample.blob)]
         IN IF imphash = cur_imphash
            THEN [a EXCEPT !.matches = Append(@,
                                          <<sample.name, sample.sha256>>)]
            ELSE a

ImphashScan(samples, imphash) ==
    LET loop[i \in 0..Len(samples)] ==
            IF i = 0 THEN NoAcc
            ELSE ImphashStep(loop[i - 1], samples[i], imphash)
    IN loop[Len(samples)]

\* A test that takes no two options for exclusive.
NeverExclusive(arg_scan, arg_cluster) == FALSE

\* Line 460: --scan and --cluster together.
Exclusive(arg_scan, arg_cluster) == arg_scan /\ arg_cluster

\* PE.imphash
Imphash ==
    \E arg_scan \in BOOLEAN, arg_cluster \in BOOLEAN :
        LET o == [Started("imphash") EXCEPT !.scan = arg_scan,
                                            !.cluster = arg_cluster]
            cs == CheckSession
            all == ClusterAll(Samples)
            own == get_imphash(cs.pe)
            o1 == [o EXCEPT !.checked = TRUE, !.primary = cs.pe]
        IN IF Exclusive(arg_scan, arg_cluster)
           THEN /\ out' = [o EXCEPT !.errors =
                       <<"You selected two exclusive options, pick one">>]
                /\ UNCHANGED <<session, self_pe, corpus, stored, image, tz>>
           ELSE IF arg_cluster
           THEN /\ out' = [o EXCEPT !.listed = TRUE,
                                    !.fetched = all.fetched,
                                    !.derived = all.derived,
                                    !.clusters = PrintedClusters(all.cluster)]
                /\ UNCHANGED <<session, self_pe, corpus, stored, image, tz>>
           ELSE /\ self_pe' = cs.pe
                /\ out' =
                     IF ~cs.ok THEN Refused(o, cs)
                     ELSE IF arg_scan
                     THEN Scanned([o1 EXCEPT !.value = <<own>>],
                                  ImphashScan(Samples, own))
                     ELSE [o1 EXCEPT !.value = <<own>>]
                /\ UNCHANGED <<session, corpus, stored, image, tz>>

\* ---------------------------------------------------------------- security
\* get_certificate(pe): [none, data]; none stands for the None returned when
\* the security directory's VirtualAddress is 0.  pe.write() is the file.
get_certificate(b) ==
    LET address == image[b].secAddr
        size == image[b].secSize
    IN IF Truthy(address)
       THEN [none |-> FALSE,
             data |-> SliceFrom(image[b].raw, address + CertHeader)]
       ELSE [none |-> TRUE, data |-> << >>]

\* not cert_data: None or no bytes.
NoCert(cert) == cert.none \/ cert.data = << >>

\* One turn of the loop of lines 613-636.
SecurityStep(acc, sample, cert_md5) ==
    LET v == Visit(sample) IN
    IF v \in {"self", "missing"} THEN acc
    ELSE IF v = "corrupt"
    THEN [acc EXCEPT !.fetched = Append(@, sample.blob)]
    ELSE LET cur_cert_data == get_certificate(sample.blob)
             a == [acc EXCEPT !.fetched = Append(@, sample.blob)]
         IN IF NoCert(cur_cert_data) THEN a
            ELSE IF Md5(cur_cert_data.data) = cert_md5
            THEN [a EXCEPT !.derived = Append(@, sample.blob),
                           !.matches = Append(@,
                                          <<sample.name, sample.sha256>>)]
            ELSE [a EXCEPT !.derived = Append(@, sample.blob)]

SecurityScan(samples, cert_md5) ==
    LET loop[i \in 0..Len(samples)] ==
            IF i = 0 THEN NoAcc
            ELSE SecurityStep(loop[i - 1], samples[i], cert_md5)
    IN loop[Len(samples)]

\* PE.security
Security ==
    \E arg_folder \in DumpArgs, arg_scan \in BOOLEAN :
        LET o == [Started("security") EXCEPT !.scan = arg_scan,
                                             !.dump = arg_folder]
            cs == CheckSession
            cert_data == get_certificate(cs.pe)
            cert_md5 == Md5(cert_data.data)
            o1 == [o EXCEPT !.checked = TRUE, !.primary = cs.pe]
            o2 == [o1 EXCEPT !.value = <<cert_md5>>]
            cert_path == <<<<arg_folder>>, Sha256(session), ".crt">>
            o3 == IF arg_folder # ""
                  THEN [o2 EXCEPT !.written =
                           <<[path |-> cert_path, data |-> cert_data.data,
                              pe |-> cs.pe, obj |-> 0]>>]
                  ELSE o2
        IN /\ self_pe' = cs.pe
           /\ out' =
                IF ~cs.ok THEN Refused(o, cs)
                ELSE IF NoCert(cert_data)
                THEN [o1 EXCEPT !.errors = <<"No certificate found">>]
                ELSE IF arg_scan THEN Scanned(o3, SecurityScan(Samples, cert_md5))
                ELSE o3
           /\ UNCHANGED <<session, corpus, stored, image, tz>>

\* -------------------------------------------------------------------- peid
\* get_matches(pe, signatures): signatures.match_all(pe, ep_only=True)
get_matches(b) == image[b].peid

\* One turn of the loop of lines 241-256.
PeidStep(acc, sample, peid_matches) ==
    LET v == Visit(sample) IN
    IF v \in {"self", "missing"} THEN acc
    ELSE IF v = "corrupt"
    THEN [acc EXCEPT !.fetched = Append(@, sample.blob)]
    ELSE LET cur_peid_matches == get_matches(sample.blob)
             a == [acc EXCEPT !.fetched = Append(@, sample.blob),
                              !.derived = Append(@, sample.blob)]
         IN IF peid_matches = cur_peid_matches
            THEN [a EXCEPT !.matches = Append(@,
                                          <<sample.name, sample.sha256>>)]
            ELSE a

PeidScan(samples, peid_matches) ==
    LET loop[i \in 0..Len(samples)] ==
            IF i = 0 THEN NoAcc
            ELSE PeidStep(loop[i - 1], samples[i], peid_matches)
    IN loop[Len(samples)]

\* PE.peid
Peid ==
    \E arg_scan \in BOOLEAN :
        LET o == [Started("peid") EXCEPT !.scan = arg_scan]
            cs == CheckSession
            peid_matches == get_matches(cs.pe)
            o1 == [o EXCEPT !.checked = TRUE, !.primary = cs.pe,
                            !.value = <<peid_matches>>]
        IN /\ self_pe' = cs.pe
           /\ out' =
                IF ~cs.ok THEN Refused(o, cs)
                ELSE IF arg_scan /\ peid_matches # << >>
                THEN Scanned(o1, PeidScan(Samples, peid_matches))
                ELSE o1
           /\ UNCHANGED <<session, corpus, stored, image, tz>>

\* ---------------------------------------------------------------- language
\* A text (a DLL name, the bytes of a file) is a sequence of tokens, each a
\* run of characters; a search string is a sequence of tokens too.
TokLen(t) ==
    CASE t = "type_info" -> 9
      [] t = "RTTI" -> 4
      [] t = "Borland" -> 7
      [] t = "Delphi" -> 6
      [] t = "Compiler" -> 8
      [] t = "VisualBasic" -> 11
      [] t = "AU3" -> 3
      [] t = "Microsoft" -> 9
      [] t = "Software" -> 8
      [] t = "EA06" -> 4
      [] t = "AV" -> 2
      [] OTHER -> 1

\* The characters of the class [\x30-\x39\x41-\x5f\x61-\x7a\-\.:]: digits,
\* A-Z, [ \ ] ^ _, a-z, hyphen, period and colon.  "!" (\x21), "?" (\x3f),
\* the blank and the NUL byte are outside it.
InClass(t) == t \notin {"!", "?", " ", "NUL"}

CharLen(text) ==
    LET sum[i \in 0..Len(text)] ==
            IF i = 0 THEN 0 ELSE sum[i - 1] + TokLen(text[i])
    IN sum[Len(text)]

\* needle in text / text.find(needle) != -1
Contains(text, needle) ==
    \E i \in 1..(Len(text) - Len(needle) + 1) :
        SubSeq(text, i, i + Len(needle) - 1) = needle

\* text.split(sep) for a one-character sep.
Split(text, sep) ==
    LET loop[i \in 0..Len(text)] ==
            IF i = 0 THEN << << >> >>
            ELSE LET prev == loop[i - 1]
                     n == Len(prev)
                 IN IF text[i] = sep THEN Append(prev, << >>)
                    ELSE [prev EXCEPT ![n] = Append(@, text[i])]
    IN loop[Len(text)]

\* get_strings(content): re.findall of runs of 4 or more characters of the
\* class.
get_strings(content) ==
    LET flush(st) ==
            IF CharLen(st.cur) >= 4
            THEN [runs |-> Append(st.runs, st.cur), cur |-> << >>]
            ELSE [runs |-> st.runs, cur |-> << >>]
        loop[i \in 0..Len(content)] ==
            IF i = 0 THEN [runs |-> << >>, cur |-> << >>]
            ELSE LET prev == loop[i - 1]
                 IN IF InClass(content[i])
                    THEN [prev EXCEPT !.cur = Append(@, content[i])]
                    ELSE flush(prev)
    IN flush(loop[Len(content)]).runs

\* get_iat(pe): raises AttributeError without DIRECTORY_ENTRY_IMPORT.
HasIat(b) == image[b].hasImports
get_iat(b) == image[b].iat

\* check_module(iat, match)
check_module(iat, match) ==
    \E i \in 1..Len(iat) : Contains(iat[i], match)

\* An is_cpp that does not count the C runtime in.
CountlessCpp(data, cnt) ==
    \E i \in 1..Len(data) :
        Contains(data[i], <<"type_info">>) \/ Contains(data[i], <<"RTTI">>)

\* is_cpp(data, cnt)
is_cpp(data, cnt) ==
    LET hit == \E i \in 1..Len(data) :
                   Contains(data[i], <<"type_info">>)
                   \/ Contains(data[i], <<"RTTI">>)
        n == IF hit THEN cnt + 1 ELSE cnt
    IN n = 2

\* is_delphi(data)
is_delphi(data) ==
    \E i \in 1..Len(data) :
        /\ Contains(data[i], <<"Borland">>)
        /\ LET path == Split(data[i], "\\")
           IN \E p \in 1..Len(path) : Contains(path[p], <<"Delphi">>)

\* is_vbdotnet(data)
is_vbdotnet(data) ==
    \E i \in 1..Len(data) :
        /\ Contains(data[i], <<"Compiler">>)
        /\ LET stuff == Split(data[i], ".")
           IN \E p \in 1..Len(stuff) : stuff[p] = <<"VisualBasic">>

\* is_autoit(data)
is_autoit(data) ==
    \E i \in 1..Len(data) : Contains(data[i], <<"AU3", "!">>)

\* is_packed(pe): entropies are held in tenths of a bit.
is_packed(b) ==
    \E i \in 1..Len(image[b].entropy) : image[b].entropy[i] > 7 * 10

\* find_language(iat, sample, content): [found, labels], labels being the
\* "Possible language" lines printed, in order.
find_language(iat, name, content) ==
    IF check_module(iat, <<"VB">>)
    THEN [found |-> TRUE, labels |-> <<<<name, "VisualBasic">>>>]
    ELSE
    LET dotnet == check_module(iat, <<"mscoree.dll">>)
        found1 == dotnet
        l1 == IF dotnet THEN <<<<name, "DotNet">>>> ELSE << >>
        c == IF ~found1 /\ (check_module(iat, <<"msvcr">>)
                            \/ check_module(iat, <<"MSVCR">>)
                            \/ check_module(iat, <<"c++">>))
             THEN 1 ELSE 0
        data == get_strings(content)
        cpp == is_cpp(data, c) /\ ~found1
        found2 == found1 \/ cpp
        l2 == IF cpp THEN Append(l1, <<name, "Cpp">>) ELSE l1
        isc == ~found2 /\ c = 1
        found3 == found2 \/ isc
        l3 == IF isc THEN Append(l2, <<name, "C">>) ELSE l2
        delphi == ~dotnet /\ is_delphi(data) /\ ~found3
        found4 == found3 \/ delphi
        l4 == IF delphi THEN Append(l3, <<name, "Delphi">>) ELSE l3
        vbnet == dotnet /\ is_vbdotnet(data)
        found5 == found4 \/ vbnet
        l5 == IF vbnet THEN Append(l4, <<name, "VisualBasicDotNet">>) ELSE l4
        autoit == is_autoit(data) /\ ~found5
        found6 == found5 \/ autoit
        l6 == IF autoit THEN Append(l5, <<name, "AutoIt">>) ELSE l5
    IN IF found1 THEN [found |-> found1, labels |-> l1]
       ELSE [found |-> found6, labels |-> l6]

\* One turn of the loop of lines 799-818; a raised exception ends the loop
\* and the handler.
LanguageStep(acc, sample) ==
    IF acc.raised # "" THEN acc
    ELSE IF ~Exists(sample) THEN acc
    ELSE IF ~ParseOk(sample.blob)
    THEN [acc EXCEPT !.fetched = Append(@, sample.blob),
                     !.errors = Append(@, "Unable to parse PE file")]
    ELSE IF is_packed(sample.blob)
    THEN [acc EXCEPT !.fetched = Append(@, sample.blob),
                     !.errors = Append(@, "Probably packed")]
    ELSE IF ~HasIat(sample.blob)
    THEN [acc EXCEPT !.fetched = Append(@, sample.blob),
                     !.raised = "AttributeError"]
    ELSE LET fl == find_language(get_iat(sample.blob), sample.name,
                                 image[sample.blob].content)
         IN [acc EXCEPT !.fetched = Append(@, sample.blob),
                        !.derived = Append(@, sample.blob),
                        !.labels = @ \o fl.labels,
                        !.errors = IF fl.found THEN @
                                   ELSE Append(@, "not identified")]

LanguageScan(samples) ==
    LET loop[i \in 0..Len(samples)] ==
            IF i = 0 THEN NoAcc
            ELSE LanguageStep(loop[i - 1], samples[i])
    IN loop[Len(samples)]

\* PE.language
Language ==
    \E arg_scan \in BOOLEAN :
        LET o == [Started("language") EXCEPT !.scan = arg_scan]
            cs == CheckSession
            o1 == [o EXCEPT !.checked = TRUE, !.primary = cs.pe]
            fl == find_language(get_iat(cs.pe), session,
                                image[session].content)
            o2 == [o1 EXCEPT !.labels = fl.labels,
                             !.value = fl.labels,
                             !.errors = IF fl.found THEN << >>
                                        ELSE <<"not identified">>]
            scanned == Scanned(o2, LanguageScan(Samples))
        IN /\ self_pe' = cs.pe
           /\ out' =
                IF ~cs.ok THEN Refused(o, cs)
                ELSE IF is_packed(cs.pe)
                THEN [o1 EXCEPT !.errors = <<"Probably packed">>]
                ELSE IF ~HasIat(cs.pe)
                THEN [o1 EXCEPT !.raised = "AttributeError"]
                ELSE IF arg_scan
                THEN [scanned EXCEPT !.reported = FALSE]
                ELSE o2
           /\ UNCHANGED <<session, corpus, stored, image, tz>>

\* ------------------------------------------------ imports, exports, sections
\* PE.imports, PE.exports and PE.sections: they check the session and print
\* what the parse holds.
Listing ==
    \E cmd \in {"imports", "exports", "sections"} :
        LET o == Started(cmd)
            cs == CheckSession
        IN /\ self_pe' = cs.pe
           /\ out' = IF ~cs.ok THEN Refused(o, cs)
                     ELSE [o EXCEPT !.checked = TRUE, !.primary = cs.pe]
           /\ UNCHANGED <<session, corpus, stored, image, tz>>

\* ------------------------------------------------------------ next states
\* What happens around the commands.
Env == NewInstance \/ SessionNew \/ SessionClose

\* PE.run: one command on the instance, or what happens around it.
Next == Env \/ Listing \/ Compiletime \/ Peid \/ Resources \/ Imphash
            \/ Security \/ Language

NextTime == Env \/ Compiletime
NextRes == Env \/ Resources
NextImp == Env \/ Imphash
NextFp == Env \/ Imphash \/ Security
NextLang == Env \/ Language

\* ------------------------------------------------------------ initial states
\* A PE image nothing is remarkable about: imports, no resources, no
\* certificate, unpacked, no signature, no telling string.
Plain(b) ==
    [ pe |-> TRUE, ts |-> 0,
      hasImports |-> TRUE, iat |-> << <<"kernel32.dll">> >>, imphash |-> 1,
      hasRes |-> FALSE, res |-> << >>,
      secAddr |-> 0, secSize |-> 0, raw |-> <<b>>,
      entropy |-> <<0>>, content |-> << >>, peid |-> << >> ]

\* A file pefile.PE rejects.
NotPE(b) == [Plain(b) EXCEPT !.pe = FALSE]

\* The listing of a database of n samples: blobs 1..n, each once.
ListingOf(n) == [i \in 1..n |-> i]

\* No session, a fresh instance, nothing done yet, a database of n samples.
Fresh(n) ==
    /\ session = 0
    /\ self_pe = 0
    /\ out = NoOut
    /\ corpus = ListingOf(n)

\* --- compile times around the window's edge, and one DstShift away.
TimeStamps ==
    {0, DstShift} \cup {MaxWindow * SecondsPerMinute + d :
                           d \in {0, 1, SecondsPerMinute - 1,
                                  SecondsPerMinute}}

InitTime ==
    /\ Fresh(NFew)
    /\ stored = 1..NFew
    /\ tz \in {"utc", "dst"}
    /\ image \in {[b \in 1..(NFew + 1) |->
                      IF b <= NFew THEN [Plain(b) EXCEPT !.ts = t[b]]
                      ELSE Plain(b)] :
                     t \in [1..NFew -> TimeStamps]}

SpecTime == InitTime /\ [][NextTime]_vars

\* --- resource trees.  A tree is drawn as the sequence of its language-level
\* entries in traversal order, each saying whether it opens a new type
\* entry, a new id entry of the same type, or follows in the same id entry,
\* and whether reading it raises.
LeafTags == {"type", "id", "lang"}
Drawn(kinds) ==
    UNION {{s \in [1..n -> kinds] : n > 0 => s[1].tag = "type"} :
              n \in 0..MaxLeaves}

\* The tree a drawn sequence stands for.
TreeOf(s) ==
    LET leaf(i) == [offset |-> s[i].offset, size |-> 1, lang |-> 0,
                    data |-> s[i].data]
        loop[i \in 0..Len(s)] ==
            IF i = 0 THEN << >>
            ELSE LET t == loop[i - 1]
                     nt == Len(t)
                     ni == IF nt = 0 THEN 0 ELSE Len(t[nt].ids)
                 IN IF s[i].tag = "type"
                    THEN Append(t, [name |-> <<"type", nt + 1>>,
                                    hasDir |-> TRUE,
                                    ids |-> <<[hasDir |-> TRUE,
                                               langs |-> <<leaf(i)>>]>>])
                    ELSE IF s[i].tag = "id"
                    THEN [t EXCEPT ![nt].ids =
                             Append(@, [hasDir |-> TRUE,
                                        langs |-> <<leaf(i)>>])]
                    ELSE [t EXCEPT ![nt].ids[ni].langs = Append(@, leaf(i))]
    IN loop[Len(s)]

WithTree(b, s) == [Plain(b) EXCEPT !.hasRes = TRUE, !.res = TreeOf(s)]

\* One entry under one type and id.
OneLeaf(offset, data) ==
    <<[tag |-> "type", offset |-> offset, data |-> data]>>

\* The database lists one sample, blob 1, which holds any tree of at most
\* MaxLeaves entries, at offsets 1, 2, ..., some of which raise.  Blob 2 is a
\* file outside the database with one entry, and blob 3 the content of the
\* entries.
InitTree ==
    /\ Fresh(1)
    /\ stored = {1}
    /\ tz = "utc"
    /\ \E s \in Drawn([tag : LeafTags, offset : {0}, data : {0, 3}]) :
          image = [b \in 1..3 |->
                      IF b = 1
                      THEN WithTree(b, [i \in 1..Len(s) |->
                                           [s[i] EXCEPT !.offset = i]])
                      ELSE IF b = 2 THEN WithTree(b, OneLeaf(1, 3))
                      ELSE Plain(b)]

SpecTree == InitTree /\ [][NextRes]_vars

\* --- import hashes.  The database lists NCorpus samples; each is missing
\* from storage, or a file pefile rejects, or a PE image with one of two
\* import hashes.  One more image is outside the database.
ImpKinds == {"missing", "notpe", "one", "two"}

InitImp ==
    /\ Fresh(NCorpus)
    /\ tz = "utc"
    /\ \E kind \in [1..NCorpus -> ImpKinds] :
          /\ stored = {b \in 1..NCorpus : kind[b] # "missing"}
          /\ image = [b \in 1..(NCorpus + 1) |->
                         IF b > NCorpus THEN Plain(b)
                         ELSE IF kind[b] = "notpe" THEN NotPE(b)
                         ELSE IF kind[b] = "two"
                         THEN [Plain(b) EXCEPT !.imphash = 2]
                         ELSE Plain(b)]

SpecImp == InitImp /\ [][NextImp]_vars

\* --- certificates.  The file of a signed image is its first byte, the
\* certificate table (CertHeader bytes of header, then the payload) and
\* whatever follows the table in the file.
Bytes(n, byte) == [k \in 1..n |-> byte]

Signed(b, imphash, payload, overlay) ==
    [Plain(b) EXCEPT !.imphash = imphash,
                     !.secAddr = 1,
                     !.secSize = CertHeader + payload,
                     !.raw = <<b>> \o Bytes(CertHeader, 0)
                                  \o Bytes(payload, 1) \o Bytes(overlay, 2)]

\* The database lists NFew samples; each is unsigned, or signed with a
\* payload of at most MaxPayload bytes followed by at most MaxOverlay bytes,
\* and has one of two import hashes.  One more image is outside it.
InitCert ==
    /\ Fresh(NFew)
    /\ stored = 1..NFew
    /\ tz = "utc"
    /\ image \in
          {[b \in 1..(NFew + 1) |->
               IF b > NFew THEN Plain(b)
               ELSE IF ~sig[b].signed
               THEN [Plain(b) EXCEPT !.imphash = sig[b].imphash]
               ELSE Signed(b, sig[b].imphash, sig[b].payload,
                           sig[b].overlay)] :
             sig \in [1..NFew ->
                        {x \in [signed : BOOLEAN, imphash : {1, 2},
                                payload : 0..MaxPayload,
                                overlay : 0..MaxOverlay] :
                            ~x.signed => x.payload = 0 /\ x.overlay = 0}]}

SpecFp == InitCert /\ [][NextFp]_vars

\* --- languages.  The database lists NFew samples, each of one of the kinds
\* below; one more image, a plain one, is outside it.
LangKinds == {"notpe", "packed", "dense", "noimports", "plain", "vb",
              "dotnet", "vbdotnet", "c", "cpp", "delphi", "autoit"}

OfKind(b, kind) ==
    CASE kind = "notpe" -> NotPE(b)
      [] kind = "packed" -> [Plain(b) EXCEPT !.entropy = <<0, 75>>]
      [] kind = "dense" ->
            [Plain(b) EXCEPT !.entropy = <<7 * 10, 0>>,
                             !.iat = << <<"MS", "VB", "VM60.DLL">> >>]
      [] kind = "noimports" ->
            [Plain(b) EXCEPT !.hasImports = FALSE, !.iat = << >>]
      [] kind = "vb" ->
            [Plain(b) EXCEPT !.iat = << <<"MS", "VB", "VM60.DLL">> >>]
      [] kind = "dotnet" ->
            [Plain(b) EXCEPT !.iat = << <<"mscoree.dll">> >>]
      [] kind = "vbdotnet" ->
            [Plain(b) EXCEPT !.iat = << <<"mscoree.dll">> >>,
                             !.content = <<"Microsoft", ".", "VisualBasic",
                                           ".", "Compiler", "NUL">>]
      [] kind = "c" ->
            [Plain(b) EXCEPT !.iat = << <<"kernel32.dll">>,
                                        <<"msvcr", "t.dll">> >>]
      [] kind = "cpp" ->
            [Plain(b) EXCEPT !.iat = << <<"msvcr", "t.dll">> >>,
                             !.content = <<"NUL", ".", "?", "AV",
                                           "type_info", "NUL">>]
      [] kind = "delphi" ->
            [Plain(b) EXCEPT !.content = <<"NUL", "Software", "\\",
                                           "Borland", "\\", "Delphi",
                                           "NUL">>]
      [] kind = "autoit" ->
            [Plain(b) EXCEPT !.content = <<"NUL", "AU3", "!", "EA06",
                                           "NUL">>]
      [] OTHER -> Plain(b)

InitLang ==
    /\ Fresh(NFew)
    /\ stored = 1..NFew
    /\ tz = "utc"
    /\ image \in {[b \in 1..(NFew + 1) |->
                      IF b > NFew THEN Plain(b) ELSE OfKind(b, kind[b])] :
                     kind \in [1..NFew -> LangKinds]}

SpecLang == InitLang /\ [][NextLang]_vars

\* --- resources shared between samples.  The database lists NFew samples.
\* Every sample has MaxLeaves entries, each under a type of its own; the
\* content of each is one of two blobs (in sample 1 the same for all, or
\* another after the first), and the entries of sample 2 lie at the offsets
\* of sample 1's or past them.
Flat(offsets, datas) ==
    [k \in 1..MaxLeaves |->
        [tag |-> "type", offset |-> offsets[k], data |-> datas[k]]]

InitRes ==
    /\ Fresh(NFew)
    /\ stored = 1..NFew
    /\ tz = "utc"
    /\ \E d1 \in {[k \in 1..MaxLeaves |-> NFew + 1],
                    [k \in 1..MaxLeaves |->
                        IF k = 1 THEN NFew + 1 ELSE NFew + 2]},
          d2 \in [1..MaxLeaves -> {NFew + 1, NFew + 2}],
          shift \in {0, MaxLeaves} :
          image = [b \in 1..(NFew + 2) |->
                      IF b = 1
                      THEN WithTree(b, Flat([k \in 1..MaxLeaves |-> k], d1))
                      ELSE IF b = 2
                      THEN WithTree(b, Flat([k \in 1..MaxLeaves |->
                                                k + shift], d2))
                      ELSE IF b <= NFew
                      THEN WithTree(b, OneLeaf(1, NFew + 1))
                      ELSE Plain(b)]

SpecRes == InitRes /\ [][NextRes]_vars

\* --- imports and strings combined.  The first sample of the database
\* imports kernel32.dll and any of three more DLLs, in this order, and its
\* file holds any of five telling strings, NUL bytes between them; the
\* other samples and the image outside the database are plain.
Dlls == << <<"MS", "VB", "VM60.DLL">>, <<"mscoree.dll">>,
           <<"msvcr", "t.dll">> >>

Tells == << <<".", "?", "AV", "type_info", "NUL">>,
            <<"RTTI", "NUL">>,
            <<"Software", "\\", "Borland", "\\", "Delphi", "NUL">>,
            <<"Microsoft", ".", "VisualBasic", ".", "Compiler", "NUL">>,
            <<"AU3", "!", "EA06", "NUL">> >>

\* The members of seqs whose places are in picked, one after the other.
Picked(seqs, picked) ==
    LET loop[i \in 0..Len(seqs)] ==
            IF i = 0 THEN << >>
            ELSE IF i \in picked THEN loop[i - 1] \o seqs[i]
            ELSE loop[i - 1]
    IN loop[Len(seqs)]

\* The DLL names at the places picked, as a list of names.
PickedDlls(picked) ==
    LET loop[i \in 0..Len(Dlls)] ==
            IF i = 0 THEN << <<"kernel32.dll">> >>
            ELSE IF i \in picked THEN Append(loop[i - 1], Dlls[i])
            ELSE loop[i - 1]
    IN loop[Len(Dlls)]

InitCombo ==
    /\ Fresh(NFew)
    /\ stored = 1..NFew
    /\ tz = "utc"
    /\ \E dlls \in SUBSET (1..Len(Dlls)), tells \in SUBSET (1..Len(Tells)) :
          image = [b \in 1..(NFew + 1) |->
                      IF b = 1
                      THEN [Plain(b) EXCEPT
                               !.iat = PickedDlls(dlls),
                               !.content = <<"NUL">> \o Picked(Tells, tells)]
                      ELSE Plain(b)]

SpecCombo == InitCombo /\ [][NextLang]_vars

\* --- every command.  The database lists NFew samples, each missing from
\* storage or of one of the kinds below; a rich image is signed, has one
\* resource and a PEiD signature.  One more image, a plain one, is outside
\* the database; it is also the content of the resource.
Rich(b) ==
    [Signed(b, 1, 1, 0) EXCEPT !.hasRes = TRUE,
                               !.res = TreeOf(OneLeaf(1, NFew + 1)),
                               !.peid = << <<"UPX">> >>]

Init ==
    /\ Fresh(NFew)
    /\ tz = "utc"
    /\ \E kind \in [1..NFew -> {"missing", "notpe", "noimports", "plain",
                                 "rich"}] :
          /\ stored = {b \in 1..NFew : kind[b] # "missing"}
          /\ image = [b \in 1..(NFew + 1) |->
                         IF b > NFew THEN Plain(b)
                         ELSE IF kind[b] = "rich" THEN Rich(b)
                         ELSE OfKind(b, kind[b])]

Spec == Init /\ [][Next]_vars

\* -------------------------------------------------------------- properties
\* The sequences of ss one after the other.
Concat(ss) ==
    LET loop[i \in 0..Len(ss)] ==
            IF i = 0 THEN << >> ELSE loop[i - 1] \o ss[i]
    IN loop[Len(ss)]

\* The language-level entries of blob b's resource tree in type -> id ->
\* language order.
LeavesOf(b) ==
    LET res == image[b].res
    IN Concat([t \in 1..Len(res) |->
                  Concat([j \in 1..Len(res[t].ids) |->
                             res[t].ids[j].langs])])

NoLeafRaises(b) == \A k \in 1..Len(LeavesOf(b)) : LeavesOf(b)[k].data # 0

\* The resources command got as far as get_resources of its own binary.
ResourcesListed == out.cmd = "resources" /\ out.primary # 0

\* The sample at place i of the listing is one a scan can evaluate: it is
\* not the session's file, its file is stored and pefile parses it.
Evaluable(i) ==
    /\ corpus[i] # out.sess
    /\ corpus[i] \in stored
    /\ ParseOk(corpus[i])

\* The sample at place i of the listing has a row in the matches.
Matched(i) == \E k \in 1..Len(out.matches) : out.matches[k][1] = corpus[i]

\* The samples a scan can evaluate, in the order of the listing.
EvaluableSamples ==
    SelectSeq(Samples, LAMBDA sm : /\ sm.blob \in stored
                                   /\ ParseOk(sm.blob))

\* |n|
Abs(n) == IF n < 0 THEN 0 - n ELSE n

\* C1: in a compiletime scan with a window of W >= 1 minutes, a sample the
\* scan evaluates is a match iff its timestamp C and the primary's T are at
\* most W * 60 seconds apart: T + W * 60 matches, T + W * 60 + 1 does not.
C1_WindowInSeconds ==
    (out.cmd = "compiletime" /\ out.scan /\ out.primary # 0
        /\ out.window >= 1) =>
        \A i \in 1..Len(corpus) :
            Evaluable(i) =>
                (Matched(i) <=>
                    Abs(image[out.primary].ts - image[corpus[i]].ts)
                        <= out.window * SecondsPerMinute)

\* C1, where it fails without any daylight-saving shift: in a zone without
\* one, a sample one second past the window's edge is no match.
C1_OneSecondPast ==
    (out.cmd = "compiletime" /\ out.scan /\ out.primary # 0
        /\ out.window >= 1 /\ tz = "utc") =>
        \A i \in 1..Len(corpus) :
            (Evaluable(i)
                /\ image[corpus[i]].ts = image[out.primary].ts
                      + out.window * SecondsPerMinute + 1) => ~Matched(i)

\* The content hashes of the resources of a binary none of whose entries
\* raises.
ContentHashes(b) == {Md5(LeavesOf(b)[k].data) : k \in 1..Len(LeavesOf(b))}

\* The detail of the sample at place i of the listing, << >> if it has no
\* row in the matches.
DetailOf(i) ==
    LET rows == SelectSeq(out.matches, LAMBDA row : row[1] = corpus[i])
    IN IF rows = << >> THEN << >> ELSE rows[1][3]

\* C2: in a resources scan, a sample the scan evaluates is a match iff the
\* content hashes of its resources and of the primary's have a hash in
\* common, and the detail of the match is these common hashes, each once.
C2_CommonContentHashes ==
    (out.cmd = "resources" /\ out.scan /\ out.listed) =>
        \A i \in 1..Len(corpus) :
            Evaluable(i) =>
                LET common == ContentHashes(corpus[i])
                                \cap ContentHashes(out.primary)
                IN /\ Matched(i) <=> common # {}
                   /\ Range(DetailOf(i)) = common
                   /\ Len(DetailOf(i)) = Cardinality(common)

\* The certificate table's payload as the security directory bounds it: the
\* bytes of the file from CertHeader past VirtualAddress up to Size past
\* VirtualAddress.
CertificateBlob(b) ==
    SubSeq(image[b].raw, image[b].secAddr + CertHeader + 1,
           image[b].secAddr + image[b].secSize)

\* C3: get_certificate gives None for a binary whose security directory has
\* VirtualAddress 0 (the command then finds no certificate), and otherwise
\* the Size - 8 bytes of the file that start 8 bytes past VirtualAddress,
\* whatever follows them in the file; these are the bytes --dump writes.
C3_CertificateBytes ==
    (out.cmd = "security" /\ out.primary # 0) =>
        /\ image[out.primary].secAddr = 0 =>
              /\ out.errors = <<"No certificate found">>
              /\ out.written = << >>
        /\ \A k \in 1..Len(out.written) :
              /\ Len(out.written[k].data)
                    = image[out.primary].secSize - CertHeader
              /\ out.written[k].data = CertificateBlob(out.primary)

C5_Indices ==
    ResourcesListed =>
        LET result == out.resources
            leaves == LeavesOf(out.primary)
        IN /\ (~image[out.primary].hasRes => result = << >>)
           /\ \A k \in 1..Len(result) : Py(result[k], 0) = k
           /\ NoLeafRaises(out.primary) =>
                 /\ Len(result) = Len(leaves)
                 /\ \A k \in 1..Len(result) :
                       /\ Py(result[k], 2) = Hex(leaves[k].offset)
                       /\ Py(result[k], 3) = Md5(leaves[k].data)

\* A tree of MaxLeaves entries was listed whose first entry raises, under a
\* type of its own, and whose later entries are returned.
C5_Witness ==
    /\ ResourcesListed
    /\ Len(LeavesOf(out.primary)) = MaxLeaves
    /\ LeavesOf(out.primary)[1].data = 0
    /\ Len(image[out.primary].res) > 1
    /\ out.errors # << >>
    /\ Len(out.resources) = MaxLeaves - 1

\* A tree of MaxLeaves entries none of which raises was listed.
C5_WitnessFull ==
    /\ ResourcesListed
    /\ NoLeafRaises(out.primary)
    /\ Len(out.resources) = MaxLeaves

\* C6: a scan of the database, whatever the command, skips the sample
\* whose sha256 is the session file's: pefile is not called on it, no
\* fingerprint is derived from it and it has no row in the matches.
C6_SelfSkipped ==
    (out.scan /\ out.listed) =>
        /\ out.sess \notin Range(out.fetched)
        /\ out.sess \notin Range(out.derived)
        /\ \A k \in 1..Len(out.matches) : out.matches[k][1] # out.sess

\* A fingerprint of the command's kind can be derived from blob b, a PE
\* image.
CanDerive(cmd, b) ==
    CASE cmd = "language" -> ~is_packed(b) /\ HasIat(b)
      [] cmd = "security" -> ~NoCert(get_certificate(b))
      [] OTHER -> TRUE

\* C7: a scan is not ended by a sample that is missing, that pefile
\* rejects or that has no fingerprint: no exception leaves the handler,
\* every sample that can be evaluated is, and the language scan prints
\* what it prints for the database without the samples that fail.
C7_FailuresSkipped ==
    (out.scan /\ out.listed) =>
        /\ out.raised = ""
        /\ \A i \in 1..Len(corpus) :
              (Evaluable(i) /\ CanDerive(out.cmd, corpus[i]))
                  => corpus[i] \in Range(out.derived)
        /\ out.cmd = "language" =>
              out.labels = out.value \o
                  LanguageScan(SelectSeq(Samples,
                      LAMBDA sm : /\ Exists(sm) /\ ParseOk(sm.blob)
                                  /\ HasIat(sm.blob))).labels

\* C8: imphash --cluster needs no session and checks none; it puts every
\* sample whose file is stored and parsed, the session's own included,
\* under its imphash, in the order of the listing, and prints exactly the
\* groups of 2 or more: no sample is printed twice and none that is alone
\* with its imphash.
C8_Clusters ==
    (out.cmd = "imphash" /\ out.cluster /\ ~out.scan) =>
        LET group(h) == SelectSeq(EvaluableSamples,
                                  LAMBDA sm : get_imphash(sm.blob) = h)
            hashes == {get_imphash(EvaluableSamples[k].blob) :
                          k \in 1..Len(EvaluableSamples)}
            members(h) == [k \in 1..Len(group(h)) |->
                              <<group(h)[k].sha256, group(h)[k].name>>]
        IN /\ ~out.checked
           /\ out.clusters =
                 {[key |-> h, members |-> members(h)] :
                     h \in {x \in hashes : Len(group(x)) >= 2}}
           /\ \A c \in out.clusters : Len(c.members) >= 2
           /\ \A c, d \in out.clusters :
                 (\E k \in 1..Len(c.members), l \in 1..Len(d.members) :
                     c.members[k] = d.members[l]) => c = d

\* With a session open, two samples of the database share an imphash, the
\* session's file being one of them, a third has an imphash of its own, and
\* the one cluster printed is the pair.
C8_Witness ==
    /\ out.cmd = "imphash" /\ out.cluster /\ ~out.scan
    /\ out.sess # 0
    /\ Len(EvaluableSamples) = NCorpus
    /\ Cardinality(out.clusters) = 1
    /\ \A c \in out.clusters :
          /\ Len(c.members) = 2
          /\ \E k \in 1..2 : c.members[k] = <<Sha256(out.sess), out.sess>>

\* The same without any session.
C8_WitnessNoSession ==
    /\ out.cmd = "imphash" /\ out.cluster /\ ~out.scan
    /\ out.sess = 0
    /\ Len(EvaluableSamples) = NCorpus
    /\ Cardinality(out.clusters) = 1

\* The fingerprint the imphash and the security scan go by, << >> when the
\* binary has none: the imphash, and the MD5 of the certificate's bytes.
Fingerprint(cmd, b) ==
    IF cmd = "imphash" THEN <<get_imphash(b)>>
    ELSE IF image[b].secAddr = 0 \/ CertificateBlob(b) = << >> THEN << >>
    ELSE <<Md5(CertificateBlob(b))>>

\* C9: in the imphash and the security scan the matches are exactly the
\* samples, other than the session's file, that are stored and parsed, have
\* a fingerprint (the imphash; the MD5 of the certificate's bytes) and have
\* the primary's; a sample without certificate is no match.
C9_EqualFingerprints ==
    (out.cmd \in {"imphash", "security"} /\ out.scan /\ out.listed) =>
        \A i \in 1..Len(corpus) :
            Matched(i) <=>
                /\ Evaluable(i)
                /\ Fingerprint(out.cmd, corpus[i]) # << >>
                /\ Fingerprint(out.cmd, corpus[i])
                      = Fingerprint(out.cmd, out.primary)

\* C9 with the certificate's bytes taken as get_certificate returns them,
\* trailing bytes of the file included: on these the two scans match as
\* stated.
C9_OnReturnedBytes ==
    (out.cmd \in {"imphash", "security"} /\ out.scan /\ out.listed) =>
        LET fp(b) == IF out.cmd = "imphash" THEN <<get_imphash(b)>>
                     ELSE IF NoCert(get_certificate(b)) THEN << >>
                     ELSE <<Md5(get_certificate(b).data)>>
        IN \A i \in 1..Len(corpus) :
               Matched(i) <=>
                   /\ Evaluable(i)
                   /\ fp(corpus[i]) # << >>
                   /\ fp(corpus[i]) = fp(out.primary)

\* The languages named by the lines find_language printed.
Languages(labels) == [k \in 1..Len(labels) |-> labels[k][2]]

\* The languages find_language prints for the sample at place i, which the
\* language scan can evaluate.
LanguagesOf(i) ==
    Languages(find_language(get_iat(corpus[i]), corpus[i],
                            image[corpus[i]].content).labels)

\* C10: in the language scan a sample is a match iff find_language names
\* a language for it and names for it what it named for the primary.
C10_SameLanguageMatches ==
    (out.cmd = "language" /\ out.scan /\ out.listed) =>
        \A i \in 1..Len(corpus) :
            Matched(i) <=>
                /\ Evaluable(i)
                /\ CanDerive("language", corpus[i])
                /\ LanguagesOf(i) # << >>
                /\ LanguagesOf(i) = Languages(out.value)

\* The language command got as far as find_language on the session's own
\* binary, parsed by this very command or an earlier one.
LanguageGuessed ==
    /\ out.cmd = "language"
    /\ out.primary # 0 /\ out.primary = out.sess
    /\ ~is_packed(out.primary)
    /\ out.raised = ""

\* Blob b imports mscoree.dll and no DLL with VB in its name, and one of its
\* strings contains Compiler and has a segment VisualBasic between periods.
IsVbDotNetBinary(b) ==
    /\ HasIat(b)
    /\ check_module(get_iat(b), <<"mscoree.dll">>)
    /\ ~check_module(get_iat(b), <<"VB">>)
    /\ is_vbdotnet(get_strings(image[b].content))

\* C11: a binary that imports mscoree.dll, no DLL named with VB, and has a
\* string that contains Compiler and a segment VisualBasic between periods
\* is labelled VisualBasicDotNet.
C11_VbDotNetLabelled ==
    (LanguageGuessed /\ IsVbDotNetBinary(out.primary)) =>
        "VisualBasicDotNet" \in Range(Languages(out.value))

\* C12: a binary with a section of entropy above 7, be it the primary or a
\* sample of the scan, is reported as packed and find_language is not
\* called on it, so no language is printed for it; a binary all of whose
\* sections have entropy 7 or less gets to find_language.
C12_PackedGate ==
    (out.cmd = "language" /\ out.primary # 0 /\ out.primary = out.sess) =>
        /\ is_packed(out.primary) =>
              /\ out.errors = <<"Probably packed">>
              /\ out.value = << >> /\ out.labels = << >>
        /\ ~is_packed(out.primary) =>
              \/ out.value # << >>
              \/ out.errors # << >> /\ out.errors[1] = "not identified"
        /\ \A i \in 1..Len(corpus) :
              (out.listed /\ corpus[i] \in stored /\ ParseOk(corpus[i])) =>
                  (is_packed(corpus[i])
                      <=> corpus[i] \notin Range(out.derived))

\* The half of C12 about packed binaries alone: no language is printed for
\* a packed binary and a packed sample is reported as packed.
C12_PackedNeverGuessed ==
    (out.cmd = "language" /\ out.primary # 0 /\ out.primary = out.sess) =>
        /\ is_packed(out.primary) =>
              /\ out.errors = <<"Probably packed">>
              /\ out.value = << >> /\ out.labels = << >>
        /\ \A i \in 1..Len(corpus) :
              (out.listed /\ is_packed(corpus[i])) =>
                  /\ corpus[i] \notin Range(out.derived)
                  /\ \A k \in 1..Len(out.labels) :
                        out.labels[k][1] # corpus[i]

\* C13: imphash with both --scan and --cluster prints an error and returns
\* before anything else: the database is not listed, no file is parsed,
\* the session is not checked, no imphash is computed or printed.
C13_ExclusiveOptions ==
    (out.cmd = "imphash" /\ out.scan /\ out.cluster) =>
        /\ out.errors = <<"You selected two exclusive options, pick one">>
        /\ ~out.listed /\ ~out.checked
        /\ out.fetched = << >> /\ out.derived = << >>
        /\ out.primary = 0 /\ out.value = << >>
        /\ out.matches = << >> /\ out.clusters = {}

\* C13: the same invocation leaves the instance's parse as it was.
C13_ParseUntouched ==
    [][(out'.cmd = "imphash" /\ out'.scan /\ out'.cluster)
          => self_pe' = self_pe]_vars

\* Both options were given with a session open on a PE image nothing was
\* parsed of yet, and a database in which every sample is stored and parsed.
C13_Witness ==
    /\ out.cmd = "imphash" /\ out.scan /\ out.cluster
    /\ out.sess # 0 /\ ParseOk(out.sess) /\ self_pe = 0
    /\ Len(EvaluableSamples) = NCorpus

\* The commands that fingerprint a binary.
Fingerprinting == {"imports", "exports", "sections", "compiletime", "peid",
                   "resources", "imphash", "security", "language"}

\* The handler printed an error and did nothing else: it derived nothing
\* of any binary, did not list the database and wrote no file.
OnlyAnError ==
    /\ out.errors # << >>
    /\ out.primary = 0 /\ out.value = << >>
    /\ out.resources = << >> /\ out.labels = << >>
    /\ ~out.listed
    /\ out.fetched = << >> /\ out.derived = << >>
    /\ out.matches = << >> /\ out.clusters = {}
    /\ out.written = << >>
    /\ out.raised = ""

\* C14 as stated: without a session every fingerprinting command, imphash
\* --cluster included, prints an error, computes no fingerprint, does not
\* list the database and writes no file.
C14_NoSessionRefused ==
    (out.cmd \in Fingerprinting /\ out.sess = 0) => OnlyAnError

\* C14 amended: without a session every fingerprinting command other than
\* imphash --cluster prints an error, computes no fingerprint, does not
\* list the database and writes no file; imphash --cluster (without
\* --scan) checks no session and lists the database all the same.
C14_NoSessionRefusedButCluster ==
    (out.cmd \in Fingerprinting /\ out.sess = 0) =>
        IF out.cmd = "imphash" /\ out.cluster /\ ~out.scan
        THEN out.listed /\ ~out.checked /\ out.errors = << >>
        ELSE OnlyAnError

\* With no session, and a parse of an earlier session's binary still held
\* by the instance, the resources command was refused.
C14_Witness ==
    /\ out.cmd = "resources" /\ out.sess = 0
    /\ self_pe # 0 /\ image[self_pe].hasRes
    /\ out.errors = <<"No session opened">>

\* C15: whatever was run on the instance before, a resources --open that
\* moved the session included, the parse a fingerprinting command works on
\* is the parse of the file of the session open when the command starts.
C15_ParseOfCurrentSession ==
    (out.cmd \in Fingerprinting /\ out.primary # 0) =>
        out.primary = out.sess

\* One of the names imported contains the token.
Imports(iat, token) == \E i \in 1..Len(iat) : Contains(iat[i], <<token>>)

\* One of the strings contains the tokens.
HasString(strings, tokens) ==
    \E i \in 1..Len(strings) : Contains(strings[i], tokens)

\* The rules of find_language in their order, each with the language it
\* names and whether it fires on these imports and this content.
Rules(iat, content) ==
    LET strings == get_strings(content)
        crt == Imports(iat, "msvcr") \/ Imports(iat, "MSVCR")
                 \/ Imports(iat, "c++")
    IN << <<"VisualBasic", Imports(iat, "VB")>>,
          <<"DotNet", Imports(iat, "mscoree.dll")>>,
          <<"Cpp", crt /\ (HasString(strings, <<"type_info">>)
                           \/ HasString(strings, <<"RTTI">>))>>,
          <<"C", crt>>,
          <<"Delphi", \E i \in 1..Len(strings) :
                         /\ Contains(strings[i], <<"Borland">>)
                         /\ \E p \in 1..Len(Split(strings[i], "\\")) :
                               Contains(Split(strings[i], "\\")[p],
                                        <<"Delphi">>)>>,
          <<"VisualBasicDotNet",
            /\ Imports(iat, "mscoree.dll")
            /\ \E i \in 1..Len(strings) :
                  /\ Contains(strings[i], <<"Compiler">>)
                  /\ \E p \in 1..Len(Split(strings[i], ".")) :
                        Split(strings[i], ".")[p] = <<"VisualBasic">> >>,
          <<"AutoIt", HasString(strings, <<"AU3", "!">>)>> >>

\* The language of the first rule that fires, as a list: empty when none
\* fires.
FirstRule(rules) ==
    LET loop[i \in 0..Len(rules)] ==
            IF i = 0 THEN << >>
            ELSE LET prev == loop[i - 1]
                 IN IF prev # << >> THEN prev
                    ELSE IF rules[i][2] THEN <<rules[i][1]>>
                    ELSE << >>
    IN loop[Len(rules)]

\* The lines find_language printed for the sample named name during the
\* scan (the lines after those of the primary).
ScanLabelsOf(name) ==
    SelectSeq(SubSeq(out.labels, Len(out.value) + 1, Len(out.labels)),
              LAMBDA label : label[1] = name)

\* C16: whatever the imports and the strings, find_language prints at most
\* one language, that of the first rule that fires in the order
\* VisualBasic, DotNet, Cpp, C, Delphi, VisualBasicDotNet, AutoIt, and
\* returns True iff it printed one ("not identified" is printed iff it did
\* not); so with mscoree.dll and an msvcr DLL imported the language is
\* DotNet, never C or Cpp.  This holds of the primary and of every sample
\* the scan gets to.
C16_FirstRuleWins ==
    (out.cmd = "language" /\ out.primary # 0 /\ ~is_packed(out.primary)
        /\ HasIat(out.primary)) =>
        /\ Len(out.value) <= 1
        /\ Languages(out.value)
              = FirstRule(Rules(get_iat(out.primary),
                                image[out.sess].content))
        /\ ~out.scan =>
              (out.errors = <<"not identified">> <=> out.value = << >>)
        /\ ~out.scan => (out.errors = << >> <=> out.value # << >>)
        /\ \A k \in 1..Len(out.derived) :
              LET b == out.derived[k]
              IN /\ Len(ScanLabelsOf(b)) <= 1
                 /\ Languages(ScanLabelsOf(b))
                       = FirstRule(Rules(get_iat(b), image[b].content))

\* The primary imports mscoree.dll and an msvcr DLL, no VB DLL, has a
\* type_info string, and the one language printed for it is DotNet.
C16_Witness ==
    /\ out.cmd = "language" /\ out.primary # 0
    /\ out.primary = out.sess
    /\ HasIat(out.primary)
    /\ Imports(get_iat(out.primary), "mscoree.dll")
    /\ Imports(get_iat(out.primary), "msvcr")
    /\ ~Imports(get_iat(out.primary), "VB")
    /\ HasString(get_strings(image[out.primary].content), <<"type_info">>)
    /\ Languages(out.value) = <<"DotNet">>

\* The primary imports an msvcr DLL only, has a Borland Delphi string and
\* no type_info or RTTI string, and the one language printed is C.
C16_WitnessC ==
    /\ out.cmd = "language" /\ out.primary # 0
    /\ out.primary = out.sess
    /\ Rules(get_iat(out.primary), image[out.primary].content)[5][2]
    /\ Languages(out.value) = <<"C">>

====
